---------------------------- MODULE Spec2Model ----------------------------
(***************************************************************************)
(* Model of openmdao/test_suite/test_examples/betz_limit.py: the          *)
(* ActuatorDisc component (setup, compute, compute_partials) and the      *)
(* optimisation problem that TestBetzLimit.test_betz builds around it.    *)
(*                                                                         *)
(* The component's scalars are reals.  They are modelled as exact         *)
(* rationals <<numerator, denominator>> in lowest terms with a positive   *)
(* denominator; <<0, 0>> stands for the result of an undefined operation. *)
(* Floating-point rounding is not modelled.                               *)
(***************************************************************************)
EXTENDS Integers, FiniteSets, Sequences, TLC

VARIABLES inputs, outputs, J, written, last, sets, iter

vars == <<inputs, outputs, J, written, last, sets, iter>>

---------------------------------------------------------------------------
(* Exact rational arithmetic.                                              *)

Abs(n) == IF n < 0 THEN -n ELSE n

RECURSIVE GCD(_, _)
GCD(m, n) == IF n = 0 THEN m ELSE GCD(n, m % n)

NaN == <<0, 0>>

Q(n, d) ==
    IF d = 0 THEN NaN
    ELSE LET g == GCD(Abs(n), Abs(d))
             s == IF d < 0 THEN -1 ELSE 1
         IN  <<(s * n) \div g, (s * d) \div g>>

IsReal(x) == x[2] > 0

RAdd(x, y) ==
    IF x[2] = 0 \/ y[2] = 0 THEN NaN
    ELSE LET g == GCD(x[2], y[2])
         IN  Q(x[1] * (y[2] \div g) + y[1] * (x[2] \div g), (x[2] \div g) * y[2])
RNeg(x)    == <<-x[1], x[2]>>
RSub(x, y) == RAdd(x, RNeg(y))
RMul(x, y) ==
    IF x[2] = 0 \/ y[2] = 0 THEN NaN
    ELSE LET g1 == GCD(Abs(x[1]), y[2])
             g2 == GCD(Abs(y[1]), x[2])
         IN  Q((x[1] \div g1) * (y[1] \div g2), (x[2] \div g2) * (y[2] \div g1))
RDiv(x, y) == IF y[1] = 0 THEN NaN ELSE RMul(x, Q(y[2], y[1]))
RLe(x, y)  == x[1] * y[2] <= y[1] * x[2]
RLt(x, y)  == x[1] * y[2] < y[1] * x[2]
RSign(x)   == IF x[1] > 0 THEN 1 ELSE IF x[1] < 0 THEN -1 ELSE 0

RECURSIVE RPow(_, _)
RPow(x, n) == IF n = 0 THEN Q(1, 1) ELSE RMul(x, RPow(x, n - 1))

R(n) == Q(n, 1)

---------------------------------------------------------------------------
(* ActuatorDisc.setup: the declared variables and their default values.    *)

InputNames  == {"a", "Area", "rho", "Vu"}
OutputNames == {"Vr", "Vd", "Ct", "thrust", "Cp", "power"}

DefaultInputs ==
    [a |-> Q(1, 2), Area |-> R(10), rho |-> Q(1225, 1000), Vu |-> R(10)]

ZeroOutputs == [o \in OutputNames |-> R(0)]

EmptyJ == [k \in {} |-> NaN]

---------------------------------------------------------------------------
(* ActuatorDisc.compute.                                                   *)

qA(in) == RMul(RMul(RMul(Q(1, 2), in.rho), in.Area), RPow(in.Vu, 2))

\* Variant: the factor 2 of the downstream velocity deficit is dropped.
Vd_single_deficit(in) == RMul(in.Vu, RSub(R(1), in.a))

Vd(in) == RMul(in.Vu, RSub(R(1), RMul(R(2), in.a)))

Vr(in, out) == RMul(Q(1, 2), RAdd(in.Vu, out.Vd))

Ct(in) == RMul(RMul(R(4), in.a), RSub(R(1), in.a))

thrust(in, out) == RMul(out.Ct, qA(in))

\* Variant: the power coefficient grows with a.
Cp_one_plus_a(in, out) == RMul(out.Ct, RAdd(R(1), in.a))

\* Variant: the power coefficient is recovered from the thrust by division.
Cp_by_division(in, out) ==
    RDiv(RMul(out.thrust, RSub(R(1), in.a)), qA(in))

\* Variant: the thrust is used where the thrust coefficient is meant.
Cp_from_thrust(in, out) == RMul(out.thrust, RSub(R(1), in.a))

Cp(in, out) == RMul(out.Ct, RSub(R(1), in.a))

power(in, out) == RMul(RMul(out.Cp, qA(in)), in.Vu)

\* Variant: Vr is computed from the Vd slot as it was before this call.
compute_stale_Vd(in, out) ==
    LET o1 == [out EXCEPT !.Vd = Vd(in)]
        o2 == [o1 EXCEPT !.Vr = Vr(in, out)]
        o3 == [o2 EXCEPT !.Ct = Ct(in)]
        o4 == [o3 EXCEPT !.thrust = thrust(in, o3)]
        o5 == [o4 EXCEPT !.Cp = Cp(in, o4)]
        o6 == [o5 EXCEPT !.power = power(in, o5)]
    IN  o6

compute(in, out) ==
    LET o1 == [out EXCEPT !.Vd = Vd(in)]
        o2 == [o1 EXCEPT !.Vr = Vr(in, o1)]
        o3 == [o2 EXCEPT !.Ct = Ct(in)]
        o4 == [o3 EXCEPT !.thrust = thrust(in, o3)]
        o5 == [o4 EXCEPT !.Cp = Cp(in, o4)]
        o6 == [o5 EXCEPT !.power = power(in, o5)]
    IN  o6

computeWrites == {"Vd", "Vr", "Ct", "thrust", "Cp", "power"}

---------------------------------------------------------------------------
(* ActuatorDisc.compute_partials.  J maps the pairs <<output, input>> that *)
(* have been assigned to their values; the entries are assigned in source  *)
(* order, and J['thrust', 'a'] reads back the entry J['Ct', 'a'].          *)

RECURSIVE RProd(_)
RProd(s) == IF Len(s) = 1 THEN s[1]
            ELSE RMul(RProd(SubSeq(s, 1, Len(s) - 1)), s[Len(s)])

Put(Jc, k, v) == [x \in (DOMAIN Jc) \cup {k} |-> IF x = k THEN v ELSE Jc[x]]

a_times_area(in) == RMul(in.a, in.Area)

one_minus_a(in) == RSub(R(1), in.a)

a_area_rho_vu(in) == RMul(RMul(a_times_area(in), in.rho), in.Vu)

J_Vr_a(in) == RNeg(in.Vu)

J_Vr_Vu(in) == one_minus_a(in)

J_Vd_a(in) == RMul(R(-2), in.Vu)

J_Ct_a(in) == RSub(R(4), RMul(R(8), in.a))

J_thrust_a(in, Jc) ==
    RProd(<<Q(1, 2), in.rho, RPow(in.Vu, 2), in.Area, Jc[<<"Ct", "a">>]>>)

J_thrust_Area(in) ==
    RProd(<<R(2), RPow(in.Vu, 2), in.a, in.rho, one_minus_a(in)>>)

J_thrust_rho(in) ==
    RProd(<<R(2), a_times_area(in), RPow(in.Vu, 2), one_minus_a(in)>>)

J_thrust_Vu(in) == RProd(<<R(4), a_area_rho_vu(in), one_minus_a(in)>>)

\* Variant: the square of (1 - a) is dropped.
J_Cp_a_no_square(in) ==
    RAdd(RProd(<<R(4), in.a, RSub(RMul(R(2), in.a), R(2))>>),
         RMul(R(4), one_minus_a(in)))

J_Cp_a(in) ==
    RAdd(RProd(<<R(4), in.a, RSub(RMul(R(2), in.a), R(2))>>),
         RMul(R(4), RPow(one_minus_a(in), 2)))

J_power_a(in) ==
    RAdd(RProd(<<R(2), in.Area, RPow(in.Vu, 3), in.a, in.rho,
                 RSub(RMul(R(2), in.a), R(2))>>),
         RProd(<<R(2), in.Area, RPow(in.Vu, 3), in.rho,
                 RPow(one_minus_a(in), 2)>>))

J_power_Area(in) ==
    RProd(<<R(2), RPow(in.Vu, 3), in.a, in.rho, RPow(one_minus_a(in), 2)>>)

J_power_rho(in) ==
    RProd(<<R(2), a_times_area(in), RPow(in.Vu, 3), RPow(one_minus_a(in), 2)>>)

\* Variant: the factor 3 of d(Vu^3)/dVu is dropped.
J_power_Vu_no_factor(in) ==
    RProd(<<R(2), in.Area, RPow(in.Vu, 2), in.a, in.rho,
            RPow(one_minus_a(in), 2)>>)

J_power_Vu(in) ==
    RProd(<<R(6), in.Area, RPow(in.Vu, 2), in.a, in.rho,
            RPow(one_minus_a(in), 2)>>)

compute_partials(in, Jc) ==
    LET j1  == Put(Jc,  <<"Vr", "a">>,        J_Vr_a(in))
        j2  == Put(j1,  <<"Vr", "Vu">>,       J_Vr_Vu(in))
        j3  == Put(j2,  <<"Vd", "a">>,        J_Vd_a(in))
        j4  == Put(j3,  <<"Ct", "a">>,        J_Ct_a(in))
        j5  == Put(j4,  <<"thrust", "a">>,    J_thrust_a(in, j4))
        j6  == Put(j5,  <<"thrust", "Area">>, J_thrust_Area(in))
        j7  == Put(j6,  <<"thrust", "rho">>,  J_thrust_rho(in))
        j8  == Put(j7,  <<"thrust", "Vu">>,   J_thrust_Vu(in))
        j9  == Put(j8,  <<"Cp", "a">>,        J_Cp_a(in))
        j10 == Put(j9,  <<"power", "a">>,     J_power_a(in))
        j11 == Put(j10, <<"power", "Area">>,  J_power_Area(in))
        j12 == Put(j11, <<"power", "rho">>,   J_power_rho(in))
        j13 == Put(j12, <<"power", "Vu">>,    J_power_Vu(in))
    IN  j13

---------------------------------------------------------------------------
(* TestBetzLimit.test_betz: the problem handed to run_driver.              *)

IndepValues ==
    [a |-> Q(1, 2), Area |-> R(10), rho |-> Q(1225, 1000), Vu |-> R(10)]

DesignVars ==
    [a    |-> [lower |-> R(0), upper |-> R(1)],
     Area |-> [lower |-> R(0), upper |-> R(1)]]

Objective == "Cp"

Expected == Q(16, 27)

---------------------------------------------------------------------------
(* Bounds of the model.                                                    *)

MaxNum     == 4    \* evaluation grid: numerators of a run over -1..MaxNum
MaxDen     == 3    \* evaluation grid: denominators of a run over 1..MaxDen
MaxMag     == 1    \* evaluation grid: Area, rho, Vu run over -1..MaxMag
MaxHist    == 2    \* call histories: values n/2 for n in -1..MaxHist
MaxSets    == 2    \* call histories: number of input assignments
MaxStepDen == 6    \* driver: a moves over fractions with denominator <= MaxStepDen
MaxIter    == 3    \* driver: number of steps

AVals == {Q(n, d) : n \in -1..MaxNum, d \in 1..MaxDen} \cup {DefaultInputs.a}

XVals(name) == {R(n) : n \in -1..MaxMag} \cup {DefaultInputs[name]}

EvalTuples ==
    {[a |-> va, Area |-> vA, rho |-> vr, Vu |-> vV] :
        va \in AVals, vA \in XVals("Area"), vr \in XVals("rho"), vV \in XVals("Vu")}

HistVals == {Q(n, 2) : n \in -1..MaxHist}

StepVals == {Q(n, d) : n \in 0..MaxStepDen, d \in 1..MaxStepDen}

---------------------------------------------------------------------------
(* State machine.  last is the most recent operation; written is the set   *)
(* of output slots the most recent compute assigned.                       *)

TypeOK ==
    /\ DOMAIN inputs = InputNames
    /\ DOMAIN outputs = OutputNames
    /\ written \subseteq OutputNames
    /\ last \in {"setup", "set", "compute", "compute_partials", "step"}
    /\ sets \in 0..(MaxSets + 1)
    /\ iter \in 0..(MaxIter + 1)

Init ==
    /\ inputs = DefaultInputs
    /\ outputs = ZeroOutputs
    /\ J = EmptyJ
    /\ written = {}
    /\ last = "setup"
    /\ sets = 0
    /\ iter = 0

\* The framework assigns one input of the component.
SetInput ==
    /\ sets < MaxSets
    /\ \E name \in InputNames, v \in HistVals :
          inputs' = [inputs EXCEPT ![name] = v]
    /\ sets' = sets + 1
    /\ last' = "set"
    /\ UNCHANGED <<outputs, J, written, iter>>

Compute ==
    /\ outputs' = compute(inputs, outputs)
    /\ written' = computeWrites
    /\ last' = "compute"
    /\ UNCHANGED <<inputs, J, sets, iter>>

ComputePartials ==
    /\ J' = compute_partials(inputs, J)
    /\ last' = "compute_partials"
    /\ UNCHANGED <<inputs, outputs, written, sets, iter>>

Next == SetInput \/ Compute \/ ComputePartials

Spec == Init /\ [][Next]_vars

\* Single evaluations of the two functions at arbitrary input points.
InitEval ==
    /\ inputs \in EvalTuples
    /\ outputs = ZeroOutputs
    /\ J = EmptyJ
    /\ written = {}
    /\ last = "setup"
    /\ sets = 0
    /\ iter = 0

NextEval == Compute \/ ComputePartials

SpecEval == InitEval /\ [][NextEval]_vars

\* run_driver on the problem of test_betz.  One step of the driver moves the
\* design variable a, inside its bounds, in the direction in which the
\* objective a_disk.Cp increases according to the Jacobian evaluated at the
\* current point (the objective's scaler is -1, so the driver maximises Cp).
InitDriver ==
    /\ inputs = IndepValues
    /\ outputs = ZeroOutputs
    /\ J = EmptyJ
    /\ written = {}
    /\ last = "setup"
    /\ sets = 0
    /\ iter = 0

InBounds(name, v) ==
    RLe(DesignVars[name].lower, v) /\ RLe(v, DesignVars[name].upper)

DriverStep ==
    /\ iter < MaxIter
    /\ last = "compute_partials"
    /\ \E v \in StepVals :
          /\ InBounds("a", v)
          /\ v # inputs.a
          /\ RSign(RSub(v, inputs.a)) = RSign(J[<<Objective, "a">>])
          /\ inputs' = [inputs EXCEPT !.a = v]
    /\ iter' = iter + 1
    /\ last' = "step"
    /\ UNCHANGED <<outputs, J, written, sets>>

NextDriver == Compute \/ ComputePartials \/ DriverStep

SpecDriver == InitDriver /\ [][NextDriver]_vars

---------------------------------------------------------------------------
(* Helpers of the properties.                                              *)

Third == Q(1, 3)

Fresh(in) == compute(in, ZeroOutputs)

Values(x) == IF x = "a" THEN AVals ELSE XVals(x)

Shift(in, x, k) == [in EXCEPT ![x] = RAdd(@, k)]

RSum(s) == RAdd(RAdd(RAdd(s[1], s[2]), s[3]), s[4])

\* Five-point central difference from the values of a function at x + 2h,
\* x + h, x - h and x - 2h.  It is the exact derivative at x of any polynomial
\* of degree at most 4, for any step h; compute uses only +, -, * and the
\* powers 2 and 3, and every output has degree at most 3 in each input.
Stencil(p2, p1, m1, m2, h) ==
    RDiv(RSum(<<RNeg(p2), RMul(R(8), p1), RMul(R(-8), m1), m2>>),
         RMul(R(12), h))

\* The entries of J with respect to input x are the derivatives of compute,
\* taken with step h.
DerivativesWrt(in, Jc, x, h) ==
    LET p2 == Fresh(Shift(in, x, RMul(R(2), h)))
        p1 == Fresh(Shift(in, x, h))
        m1 == Fresh(Shift(in, x, RNeg(h)))
        m2 == Fresh(Shift(in, x, RMul(R(-2), h)))
    IN  \A o \in OutputNames :
            <<o, x>> \in DOMAIN Jc =>
                Jc[<<o, x>>] = Stencil(p2[o], p1[o], m1[o], m2[o], h)

AssignedPairs ==
    {<<"Vr", "a">>, <<"Vr", "Vu">>, <<"Vd", "a">>, <<"Ct", "a">>,
     <<"thrust", "a">>, <<"thrust", "Area">>, <<"thrust", "rho">>,
     <<"thrust", "Vu">>, <<"Cp", "a">>, <<"power", "a">>,
     <<"power", "Area">>, <<"power", "rho">>, <<"power", "Vu">>}

---------------------------------------------------------------------------
\* C1: after compute, all six outputs are written and satisfy
\* Vd = Vu(1-2a), Vr = (Vu+Vd)/2, Ct = 4a(1-a), thrust = Ct*(1/2)*rho*Area*Vu^2,
\* Cp = Ct(1-a), power = Cp*(1/2)*rho*Area*Vu^3, for every input tuple.
C1_ForwardEquations ==
    /\ last = "compute" => written = OutputNames
    /\ written = OutputNames =>
          LET a    == inputs.a
              Vu   == inputs.Vu
              half == Q(1, 2)
              dyn2 == RMul(half, RMul(inputs.rho, RMul(inputs.Area, RPow(Vu, 2))))
              dyn3 == RMul(half, RMul(inputs.rho, RMul(inputs.Area, RPow(Vu, 3))))
          IN  /\ outputs.Vd = RMul(Vu, RSub(R(1), RMul(R(2), a)))
              /\ outputs.Vr = RDiv(RAdd(Vu, outputs.Vd), R(2))
              /\ outputs.Ct = RMul(R(4), RMul(a, RSub(R(1), a)))
              /\ outputs.thrust = RMul(outputs.Ct, dyn2)
              /\ outputs.Cp = RMul(outputs.Ct, RSub(R(1), a))
              /\ outputs.power = RMul(outputs.Cp, dyn3)

C1_Witness ==
    /\ last = "compute"
    /\ written = OutputNames
    /\ inputs.a = Q(2, 3)
    /\ inputs.Area = DefaultInputs.Area
    /\ inputs.rho = DefaultInputs.rho
    /\ inputs.Vu = R(-1)
    /\ outputs.power # R(0)

\* C3: every Jacobian entry that compute_partials assigns equals the partial
\* derivative of that output of compute with respect to that input, at every
\* input point; the assigned entries are the 13 pairs listed.
C3_JacobianIsDerivative ==
    last = "compute_partials" =>
        /\ DOMAIN J = AssignedPairs
        /\ \A x \in InputNames :
              /\ DerivativesWrt(inputs, J, x, R(1))
              /\ DerivativesWrt(inputs, J, x, Q(1, 2))

C3_Witness ==
    /\ last = "compute_partials"
    /\ inputs = DefaultInputs
    /\ J[<<"power", "Vu">>] # R(0)

\* C4: an <<output, input>> pair to which compute_partials assigns no entry
\* has zero sensitivity: changing only that input leaves that output of
\* compute unchanged, at every input point.
C4_UnassignedIsInsensitive ==
    last = "compute_partials" =>
        \A o \in OutputNames, x \in InputNames :
            <<o, x>> \notin DOMAIN J =>
                \A v \in Values(x) :
                    Fresh([inputs EXCEPT ![x] = v])[o] = Fresh(inputs)[o]

\* C5: for a within [0, 1] the Cp that compute writes is at most 16/27, with
\* equality exactly when a = 1/3, whatever Area, rho and Vu are.
C5_BetzMaximum ==
    (written = OutputNames /\ RLe(R(0), inputs.a) /\ RLe(inputs.a, R(1))) =>
        /\ RLe(outputs.Cp, Expected)
        /\ (outputs.Cp = Expected) <=> (inputs.a = Third)

C5_Witness ==
    /\ written = OutputNames
    /\ inputs.a = Third
    /\ outputs.Cp = Expected
    /\ inputs.Area = R(0)

\* C7: compute has no error condition: after it, all six outputs are written
\* and each is a defined real (no operation of compute was undefined), also
\* for a outside [0, 1] and zero or negative Area, rho or Vu.
C7_NoErrorConditions ==
    last = "compute" =>
        /\ written = OutputNames
        /\ \A o \in OutputNames : IsReal(outputs[o])

C7_Witness ==
    /\ last = "compute"
    /\ written = OutputNames
    /\ RLt(inputs.a, R(0))
    /\ inputs.Area = R(0)
    /\ RLt(inputs.rho, R(0))
    /\ RLt(inputs.Vu, R(0))

\* C8: Ct and Cp depend on a only: compute writes the Ct and Cp it writes for
\* the inputs with the same a and the default Area, rho and Vu (so any two
\* tuples that agree on a give the same Ct and Cp), and compute_partials
\* assigns no entry for Cp or Ct with respect to Area, rho or Vu.
C8_ObjectiveDependsOnlyOnA ==
    /\ written = OutputNames =>
          LET ref == Fresh([DefaultInputs EXCEPT !.a = inputs.a])
          IN  outputs.Ct = ref.Ct /\ outputs.Cp = ref.Cp
    /\ \A o \in {"Cp", "Ct"}, x \in {"Area", "rho", "Vu"} :
          <<o, x>> \notin DOMAIN J

C8_Witness ==
    /\ written = OutputNames
    /\ last = "compute_partials"
    /\ inputs.a = Q(1, 2)
    /\ inputs.Area = R(1)
    /\ inputs.rho = R(-1)
    /\ inputs.Vu = R(1)
    /\ outputs.Cp = Q(1, 2)

\* C4 holds for every unassigned pair other than <<"Vd", "Vu">>.
C4_UnassignedExceptVdVu ==
    last = "compute_partials" =>
        \A o \in OutputNames, x \in InputNames :
            (<<o, x>> \notin DOMAIN J /\ <<o, x>> # <<"Vd", "Vu">>) =>
                \A v \in Values(x) :
                    Fresh([inputs EXCEPT ![x] = v])[o] = Fresh(inputs)[o]

\* C6: compute and compute_partials are stateless: whatever calls came before,
\* a compute step leaves the inputs (and J) unchanged and leaves in the output
\* slots what compute writes from the current inputs into fresh slots, and a
\* compute_partials step leaves inputs and outputs unchanged and leaves in J
\* what compute_partials writes from the current inputs into an empty J.
C6_StatelessStep ==
    /\ last' = "compute" =>
          /\ inputs' = inputs
          /\ J' = J
          /\ outputs' = compute(inputs', ZeroOutputs)
    /\ last' = "compute_partials" =>
          /\ inputs' = inputs
          /\ outputs' = outputs
          /\ J' = compute_partials(inputs', EmptyJ)

C6_Stateless == [][C6_StatelessStep]_vars

\* A compute on inputs assigned twice, over outputs and a Jacobian that both
\* stem from earlier calls with other inputs.
C6_Witness ==
    /\ last = "compute"
    /\ sets >= 2
    /\ J # EmptyJ
    /\ J # compute_partials(inputs, EmptyJ)
    /\ J # compute_partials(DefaultInputs, EmptyJ)
    /\ outputs # Fresh(DefaultInputs)

\* C9: in the initial state handed to run_driver every design variable lies
\* within its declared bounds.
C9_InitialDesignInBounds ==
    (last = "setup" /\ iter = 0) =>
        \A name \in DOMAIN DesignVars : InBounds(name, inputs[name])

\* C10: during run_driver a stays in [0, 1], and the Jacobian entry for the
\* objective evaluated at the current point is positive for a < 1/3, zero at
\* 1/3, negative for 1/3 < a < 1 and zero at 1, so it never points away from
\* 1/3; a = 1/3 is a maximum of Cp over the range, and the other stationary
\* point is not.
C10_GradientTowardBetz ==
    /\ InBounds("a", inputs.a)
    /\ last = "compute_partials" =>
          LET a  == inputs.a
              g  == RSign(J[<<"Cp", "a">>])
              cp == Fresh(inputs).Cp
          IN  /\ RLt(a, Third) => g = 1
              /\ a = Third => g = 0
              /\ (RLt(Third, a) /\ RLt(a, R(1))) => g = -1
              /\ a = R(1) => g = 0
              /\ g * RSign(RSub(Third, a)) >= 0
              /\ a = Third =>
                    \A v \in StepVals :
                        InBounds("a", v) =>
                            RLe(Fresh([inputs EXCEPT !.a = v]).Cp, cp)
              /\ (g = 0 /\ a # Third) =>
                    RLt(cp, Fresh([inputs EXCEPT !.a = Third]).Cp)

\* The driver has stepped from 1/2 below 1/3 and back up to 1/3.
C10_Witness ==
    /\ last = "compute_partials"
    /\ iter >= 2
    /\ inputs.a = Third
    /\ J[<<"Cp", "a">>] = R(0)

=============================================================================
